---- MODULE Spec2Model ----
(***************************************************************************)
(* Price-comparison backend: the shop-record normalizer, the listing query *)
(* builder and the category / search / lookup accessors of the two         *)
(* merchandise domains (general retail: app/products, parapharmacy:        *)
(* app/para).                                                              *)
(*                                                                         *)
(* Numbers (Python floats, BSON doubles) are fixed-point values            *)
(* [k |-> "num", w, f]: w whole units and f ten-thousandths, one decimal   *)
(* digit more than the parapharmacy rounding keeps.  Text that the code    *)
(* transforms or compares (brands, titles, SKUs, categories) is a sequence *)
(* of one-character strings.                                               *)
(***************************************************************************)
EXTENDS Integers, Sequences, FiniteSets, TLC

VARIABLES
    domain,     \* the merchandise domain the request is served in
    raw,        \* the raw record handed to the normalizer
    product,    \* what the normalizer gave for it
    coll,       \* the domain's merged_products collection, in natural order
    faultAt,    \* which store call of the request fails (0: none)
    req,        \* the request being served
    page,       \* the ListingPage returned
    exit,       \* how the service function was left: return, except, raise
    details,    \* the single-shop collections, by position in the shop order
    calls,      \* the store calls the request has made
    resp,       \* the HTTP response of the router
    client,     \* db.client, the shared connection handle
    phase,      \* where the process is in its lifespan
    users,      \* the users collection of the auth database, natural order
    procs,      \* the auth requests in flight, one per worker task
    now,        \* datetime.utcnow(), in minutes
    tokens,     \* the subjects of the access tokens issued so far
    started     \* the auth requests started so far

\* the state of the catalogue requests
catvars == <<domain, raw, product, coll, faultAt, req, page, exit, details,
             calls, resp>>

\* the state of the process lifespan and of the auth requests
authvars == <<client, phase, users, procs, now, tokens, started>>

vars == <<catvars, authvars>>

(***************************************************************************)
(* Bounds of the model.                                                    *)
(***************************************************************************)
MaxPriceLevel == 3

MaxDocs == 6

MaxPage == 2

MaxLimit == 2

MaxMerged == 3

MaxDetail == 1

MaxSearchLimit == 2

(***************************************************************************)
(* Values of a document field: absent or None, text, or a number.          *)
(***************************************************************************)
PARA_DP == 3

FracScale == 10 ^ (PARA_DP + 1)

Null == [k |-> "null"]

Text(s) == [k |-> "text", s |-> s]

Num(w, f) == [k |-> "num", w |-> w, f |-> f]

Zero == Num(0, 0)

\* a non-empty string that is not the text of a number
Bad == Text(<<"a", "b", "c">>)

NumLt(a, b) == a.w < b.w \/ (a.w = b.w /\ a.f < b.f)

NumLe(a, b) == ~NumLt(b, a)

\* Python truthiness of a field value: None, 0, 0.0, "" and {} are falsy
Truthy(v) ==
    CASE v.k = "null" -> FALSE
      [] v.k = "text" -> v.s # <<>>
      [] v.k = "num" -> v # Zero
      [] v.k = "map" -> DOMAIN v.m # {}

\* float(v) raises ValueError on non-numeric text and TypeError on None
FloatRaises(v) == v.k # "num"

\* round(x, dp) on a fixed-point value, ties to even
Round(x, dp) ==
    LET unit == 10 ^ (PARA_DP + 1 - dp)
        q == x.f \div unit
        r == x.f % unit
        up == (2 * r > unit) \/ (2 * r = unit /\ q % 2 = 1)
        g == (IF up THEN q + 1 ELSE q) * unit
    IN  IF g >= FracScale THEN Num(x.w + 1, g - FracScale) ELSE Num(x.w, g)

\* str.upper() / str.lower() over the letters the model uses
UpperChar(c) ==
    CASE c = "a" -> "A" [] c = "b" -> "B" [] c = "c" -> "C" [] c = "h" -> "H"
      [] c = "p" -> "P" [] OTHER -> c

LowerChar(c) ==
    CASE c = "A" -> "a" [] c = "B" -> "b" [] c = "C" -> "c" [] c = "H" -> "h"
      [] c = "P" -> "p" [] OTHER -> c

Upper(s) == [i \in 1..Len(s) |-> UpperChar(s[i])]

Lower(s) == [i \in 1..Len(s) |-> LowerChar(s[i])]

\* a or b, on field values
OrElse(a, b) == IF Truthy(a) THEN a ELSE b

(***************************************************************************)
(* The two domains and their fixed shop orders.                            *)
(***************************************************************************)
Domains == {"retail", "para"}

RETAIL_SHOPS == <<"mytek", "spacenet", "tunisianet">>

RETAIL_IMAGE_SHOPS == <<"mytek", "tunisianet", "spacenet">>

PARA_SHOPS == <<"parashop", "pharma-shop", "parafendri">>

ShopOrder(dom) == IF dom = "retail" THEN RETAIL_SHOPS ELSE PARA_SHOPS

ShopNames(dom) == {ShopOrder(dom)[i] : i \in 1..Len(ShopOrder(dom))}

\* shop_name.capitalize() / shop_name.replace("-", " ").title()
DisplayName(shop_name) ==
    CASE shop_name = "mytek" -> "Mytek"
      [] shop_name = "spacenet" -> "Spacenet"
      [] shop_name = "tunisianet" -> "Tunisianet"
      [] shop_name = "parashop" -> "Parashop"
      [] shop_name = "pharma-shop" -> "Pharma Shop"
      [] shop_name = "parafendri" -> "Parafendri"

\* shops_data.get(shop_name): None when the mapping has no such shop
HasShop(shops_data, shop_name) == shop_name \in DOMAIN shops_data

\* an image URL is a sequence of segments; the placeholder and the banner
\* marker are segments
PLACEHOLDER == <<"/placeholder.svg">>

BANNER == "livraison-gratuite"

\* "livraison-gratuite" in img
IsBanner(img) == \E i \in 1..Len(img) : img[i] = BANNER

(***************************************************************************)
(* parse_product / parse_para_product.                                     *)
(***************************************************************************)
\* the offers that pass "if shop and shop.get('price')", in shop order
PricedShops(dom, shops_data) ==
    SelectSeq(ShopOrder(dom),
              LAMBDA s : HasShop(shops_data, s) /\ Truthy(shops_data[s].price))

\* float(shop["price"]) or float(shop["old_price"]) raises for some offer
CollectRaises(dom, shops_data) ==
    \E i \in 1..Len(PricedShops(dom, shops_data)) :
        LET shop == shops_data[PricedShops(dom, shops_data)[i]]
        IN  FloatRaises(shop.price)
            \/ (Truthy(shop.old_price) /\ FloatRaises(shop.old_price))

ShopPriceOf(dom, shop_name, shop) ==
    [shop |-> DisplayName(shop_name),
     price |-> IF dom = "para" THEN Round(shop.price, PARA_DP) ELSE shop.price,
     oldPrice |-> IF Truthy(shop.old_price) THEN shop.old_price ELSE Null,
     available |-> shop.available,
     url |-> shop.url]

CollectShopPrices(dom, shops_data) ==
    LET ps == PricedShops(dom, shops_data)
    IN  [i \in 1..Len(ps) |-> ShopPriceOf(dom, ps[i], shops_data[ps[i]])]

\* a sort step that puts e before the entries of equal price
InsertByPriceUnstable(t, e) ==
    LET n == Cardinality({i \in 1..Len(t) : NumLt(t[i].price, e.price)})
    IN  SubSeq(t, 1, n) \o <<e>> \o SubSeq(t, n + 1, Len(t))

\* one step of list.sort(key=lambda x: x.price): e goes after every entry
\* whose price is not greater (the sort is stable)
InsertByPrice(t, e) ==
    LET n == Cardinality({i \in 1..Len(t) : NumLe(t[i].price, e.price)})
    IN  SubSeq(t, 1, n) \o <<e>> \o SubSeq(t, n + 1, Len(t))

RECURSIVE SortByPrice(_)
SortByPrice(s) ==
    IF s = <<>> THEN <<>>
    ELSE InsertByPrice(SortByPrice(SubSeq(s, 1, Len(s) - 1)), s[Len(s)])

\* the best price read from the wrong end of the list
BestPriceOfLast(shop_prices) ==
    IF shop_prices # <<>> THEN shop_prices[Len(shop_prices)].price ELSE Zero

BestPriceOf(shop_prices) ==
    IF shop_prices # <<>> THEN shop_prices[1].price ELSE Zero

\* min(old_prices) over the entries with a truthy oldPrice, else None
OriginalPriceOf(shop_prices) ==
    LET old == {shop_prices[i].oldPrice : i \in
                   {j \in 1..Len(shop_prices) : Truthy(shop_prices[j].oldPrice)}}
    IN  IF old = {} THEN Null
        ELSE CHOOSE m \in old : \A o \in old : NumLe(m, o)

\* the stock flag read from the cheapest entry alone
InStockOfCheapest(shop_prices) ==
    shop_prices # <<>> /\ shop_prices[1].available

InStockOf(shop_prices) ==
    \E i \in 1..Len(shop_prices) : shop_prices[i].available

\* the shops of `order` that pass "shop and shop.get('images') and len > 0"
ShopsWithImages(order, shops_data) ==
    SelectSeq(order,
              LAMBDA s : HasShop(shops_data, s) /\ shops_data[s].images # <<>>)

\* first image of the list that is not the delivery banner, else placeholder
FirstNonBanner(images) ==
    LET ok == SelectSeq(images, LAMBDA img : ~IsBanner(img))
    IN  IF ok = <<>> THEN PLACEHOLDER ELSE ok[1]

\* image loops that go through the shops in the order of the price loop
ImageOfShopOrder(dom, shops_data) ==
    IF dom = "para"
    THEN LET ws == ShopsWithImages(PARA_SHOPS, shops_data)
         IN  IF ws = <<>> THEN PLACEHOLDER ELSE shops_data[ws[1]].images[1]
    ELSE LET ws == ShopsWithImages(RETAIL_SHOPS, shops_data)
             found == SelectSeq(ws, LAMBDA s :
                          FirstNonBanner(shops_data[s].images) # PLACEHOLDER)
         IN  IF found = <<>> THEN PLACEHOLDER
             ELSE FirstNonBanner(shops_data[found[1]].images)

\* the image loops: retail goes on to the next shop while image_url is
\* still the placeholder; parapharmacy takes images[0] of the first shop
ImageOf(dom, shops_data) ==
    IF dom = "para"
    THEN LET ws == ShopsWithImages(PARA_SHOPS, shops_data)
         IN  IF ws = <<>> THEN PLACEHOLDER ELSE shops_data[ws[1]].images[1]
    ELSE LET ws == ShopsWithImages(RETAIL_IMAGE_SHOPS, shops_data)
             found == SelectSeq(ws, LAMBDA s :
                          FirstNonBanner(shops_data[s].images) # PLACEHOLDER)
         IN  IF found = <<>> THEN PLACEHOLDER
             ELSE FirstNonBanner(shops_data[found[1]].images)

GENERIC == <<"G", "e", "n", "e", "r", "i", "c">>

\* a brand loop with the guard of the price loop: priced shops only
BrandOfPriced(dom, shops_data) ==
    LET bs == SelectSeq(ShopOrder(dom), LAMBDA s :
                  /\ HasShop(shops_data, s)
                  /\ Truthy(shops_data[s].price)
                  /\ Truthy(shops_data[s].brand))
    IN  IF bs = <<>> THEN GENERIC ELSE Upper(shops_data[bs[1]].brand.s)

BrandOf(dom, shops_data) ==
    LET bs == SelectSeq(ShopOrder(dom), LAMBDA s :
                  HasShop(shops_data, s) /\ Truthy(shops_data[s].brand))
    IN  IF bs = <<>> THEN GENERIC ELSE Upper(shops_data[bs[1]].brand.s)

\* a specification loop that assigns without the "key not in" test: the
\* last shop in order wins
MergedSpecsLastWins(dom, shops_data) ==
    LET ss == SelectSeq(ShopOrder(dom), LAMBDA s :
                  HasShop(shops_data, s) /\ Truthy(shops_data[s].specifications))
        keys == UNION {DOMAIN shops_data[ss[i]].specifications.m :
                          i \in 1..Len(ss)}
        last(key) == CHOOSE i \in 1..Len(ss) :
                         /\ key \in DOMAIN shops_data[ss[i]].specifications.m
                         /\ \A j \in (i + 1)..Len(ss) :
                                key \notin DOMAIN shops_data[ss[j]].specifications.m
    IN  [k |-> "map",
         m |-> [key \in keys |-> shops_data[ss[last(key)]].specifications.m[key]]]

\* the specification loop: keys of every shop, first shop in order wins
MergedSpecs(dom, shops_data) ==
    LET ss == SelectSeq(ShopOrder(dom), LAMBDA s :
                  HasShop(shops_data, s) /\ Truthy(shops_data[s].specifications))
        keys == UNION {DOMAIN shops_data[ss[i]].specifications.m :
                          i \in 1..Len(ss)}
        first(key) == CHOOSE i \in 1..Len(ss) :
                          /\ key \in DOMAIN shops_data[ss[i]].specifications.m
                          /\ \A j \in 1..(i - 1) :
                                 key \notin DOMAIN shops_data[ss[j]].specifications.m
    IN  [k |-> "map",
         m |-> [key \in keys |-> shops_data[ss[first(key)]].specifications.m[key]]]

CategoryOf(dom, p, default_category) ==
    IF dom = "para"
    THEN OrElse(p.low_category, OrElse(p.subcategory, default_category))
    ELSE OrElse(p.subcategory, OrElse(p.low_category, default_category))

UNKNOWN_PRODUCT == Text(<<"Unknown Product">>)

\* p.get(key, default): the default only when the key is absent
GetOr(v, default) == IF v.k = "null" THEN default ELSE v

ParseProduct(dom, p, default_category, include_specs) ==
    IF CollectRaises(dom, p.shops) THEN [status |-> "error"]
    ELSE
      LET shop_prices == SortByPrice(CollectShopPrices(dom, p.shops))
          best_price == BestPriceOf(shop_prices)
          original_price == OriginalPriceOf(shop_prices)
      IN  [status |-> "ok",
           id |-> p.id,
           name |-> GetOr(p.title, UNKNOWN_PRODUCT),
           brand |-> BrandOf(dom, p.shops),
           bestPrice |-> IF dom = "para" THEN Round(best_price, PARA_DP)
                         ELSE best_price,
           originalPrice |->
               IF Truthy(original_price)
               THEN (IF dom = "para" THEN Round(original_price, PARA_DP)
                     ELSE original_price)
               ELSE Null,
           image |-> ImageOf(dom, p.shops),
           description |-> GetOr(p.title, Text(<<>>)),
           inStock |-> InStockOf(shop_prices),
           category |-> CategoryOf(dom, p, default_category),
           topCategory |-> IF dom = "para" THEN p.top_category ELSE Null,
           shopPrices |-> shop_prices,
           specifications |-> IF include_specs THEN MergedSpecs(dom, p.shops)
                              ELSE Null]

(***************************************************************************)
(* Raw records handed to the normalizer.                                   *)
(***************************************************************************)
PriceOfLevel(n) == Num(80 + 20 * ((n - 1) \div 2), 4 * ((n - 1) % 2))

PriceValues == {Null, Bad, Zero} \cup {PriceOfLevel(n) : n \in 1..MaxPriceLevel}

OldPriceValues == {Null, Bad, Num(120, 0)}

IMG == <<"cdn", "img.png">>

Offers ==
    [price : PriceValues, old_price : OldPriceValues, available : BOOLEAN,
     url : {Text(<<"u">>)}, images : {<<IMG>>}, brand : {Text(<<"h", "p">>)},
     specifications : {Null}]

ShopMaps(dom) == UNION {[S -> Offers] : S \in SUBSET ShopNames(dom)}

Doc(id, sku, title, sub, low, top, shops) ==
    [id |-> id, sku |-> sku, title |-> title, subcategory |-> sub,
     low_category |-> low, top_category |-> top, shops |-> shops]

RawRecords(dom) ==
    {Doc(1, Text(<<"s", "1">>), Text(<<"p", "a">>), Text(<<"c", "a">>), Null,
         Null, sh) : sh \in ShopMaps(dom)}

\* the worker tasks that serve auth requests concurrently
Procs == {1, 2}

\* db.client after connect_to_mongo: assigned once, open
Connected == [state |-> "open", assigned |-> 1]

\* a worker task that serves no request
Idle == [op |-> "idle"]

\* the process is serving, with no auth request in flight and no user
AuthAtRest ==
    /\ client = Connected
    /\ phase = "serving"
    /\ users = <<>>
    /\ procs = [p \in Procs |-> Idle]
    /\ now = 0
    /\ tokens = {}
    /\ started = 0

NoProduct == [status |-> "none"]

InitNorm ==
    /\ domain \in Domains
    /\ raw \in RawRecords(domain)
    /\ product = NoProduct
    /\ coll = <<>>
    /\ faultAt = 0
    /\ req = Null
    /\ page = Null
    /\ exit = "none"
    /\ details = <<>>
    /\ calls = 0
    /\ resp = Null
    /\ AuthAtRest

Normalize ==
    /\ product = NoProduct
    /\ \E include_specs \in BOOLEAN :
           /\ req' = [op |-> "parse", include_specs |-> include_specs]
           /\ product' = ParseProduct(domain, raw, Text(<<>>), include_specs)
    /\ UNCHANGED <<domain, raw, coll, faultAt, page, exit, details, calls, resp>>
    /\ UNCHANGED authvars

NextNorm == Normalize

SpecNorm == InitNorm /\ [][NextNorm]_vars

(***************************************************************************)
(* Raw records that differ in the brands and the image lists of the shops. *)
(***************************************************************************)
BrandValues == {Null, Text(<<>>), Text(<<"h", "p">>), Text(<<"A", "b">>)}

BANNER_IMG == <<"cdn", BANNER, "b.png">>

IMG2 == <<"cdn", "img2.png">>

ImageLists ==
    {<<>>, <<BANNER_IMG>>, <<BANNER_IMG, IMG>>, <<IMG2>>, <<PLACEHOLDER, IMG>>}

AttrOffers ==
    [price : {Null, Num(100, 0)}, old_price : {Null}, available : {TRUE},
     url : {Text(<<"u">>)}, images : ImageLists, brand : BrandValues,
     specifications : {Null}]

AttrRecords(dom) ==
    {Doc(1, Text(<<"s", "1">>), Text(<<"p", "a">>), Text(<<"c", "a">>), Null,
         Null, sh) : sh \in UNION {[S -> AttrOffers] : S \in SUBSET ShopNames(dom)}}

InitAttr ==
    /\ domain \in Domains
    /\ raw \in AttrRecords(domain)
    /\ product = NoProduct
    /\ coll = <<>>
    /\ faultAt = 0
    /\ req = Null
    /\ page = Null
    /\ exit = "none"
    /\ details = <<>>
    /\ calls = 0
    /\ resp = Null
    /\ AuthAtRest

NextAttr == Normalize

SpecAttr == InitAttr /\ [][NextAttr]_vars

(***************************************************************************)
(* Raw records that differ in the specification mappings of the shops.     *)
(***************************************************************************)
SpecMaps ==
    {Null,
     [k |-> "map", m |-> << >>],
     [k |-> "map", m |-> ("cpu" :> "i5")],
     [k |-> "map", m |-> ("cpu" :> "i7") @@ ("ram" :> "8")],
     [k |-> "map", m |-> ("ram" :> "16")]}

SpecOffers ==
    [price : {Null, Num(100, 0)}, old_price : {Null}, available : {TRUE},
     url : {Text(<<"u">>)}, images : {<<IMG>>}, brand : {Text(<<"h", "p">>)},
     specifications : SpecMaps]

SpecRecords(dom) ==
    {Doc(1, Text(<<"s", "1">>), Text(<<"p", "a">>), Text(<<"c", "a">>), Null,
         Null, sh) : sh \in UNION {[S -> SpecOffers] : S \in SUBSET ShopNames(dom)}}

InitSpecs ==
    /\ domain \in Domains
    /\ raw \in SpecRecords(domain)
    /\ product = NoProduct
    /\ coll = <<>>
    /\ faultAt = 0
    /\ req = Null
    /\ page = Null
    /\ exit = "none"
    /\ details = <<>>
    /\ calls = 0
    /\ resp = Null
    /\ AuthAtRest

NextSpecs == Normalize

SpecSpecs == InitSpecs /\ [][NextSpecs]_vars

(***************************************************************************)
(* Raw records that differ in the decimals of the prices and old prices.   *)
(***************************************************************************)
FinePrices == {Null, Num(100, 0), Num(80, 4), Num(80, 50)}

FineOldPrices == {Null, Zero, Num(120, 0), Num(110, 6), Num(130, 250)}

FineOffers ==
    [price : FinePrices, old_price : FineOldPrices, available : {TRUE},
     url : {Text(<<"u">>)}, images : {<<IMG>>}, brand : {Text(<<"h", "p">>)},
     specifications : {Null}]

FineRecords(dom) ==
    {Doc(1, Text(<<"s", "1">>), Text(<<"p", "a">>), Text(<<"c", "a">>), Null,
         Null, sh) : sh \in UNION {[S -> FineOffers] : S \in SUBSET ShopNames(dom)}}

InitFine ==
    /\ domain \in Domains
    /\ raw \in FineRecords(domain)
    /\ product = NoProduct
    /\ coll = <<>>
    /\ faultAt = 0
    /\ req = Null
    /\ page = Null
    /\ exit = "none"
    /\ details = <<>>
    /\ calls = 0
    /\ resp = Null
    /\ AuthAtRest

NextFine == Normalize

SpecFine == InitFine /\ [][NextFine]_vars


(***************************************************************************)
(* get_products_listing / get_para_products_listing: the aggregation       *)
(* pipeline, stage by stage, and the decoding of its result.               *)
(***************************************************************************)
SENTINEL == 9999999

\* category_type if it is one of the two retail fields, else "subcategory"
RetailMatchField(category_type) ==
    IF category_type \in {"subcategory", "low_category"} THEN category_type
    ELSE "subcategory"

\* get_category_field: mapping.get(category_type, "top_category")
GetCategoryField(category_type) ==
    CASE category_type = "top" -> "top_category"
      [] category_type = "low" -> "low_category"
      [] category_type = "top_category" -> "top_category"
      [] category_type = "low_category" -> "low_category"
      [] category_type = "subcategory" -> "subcategory"
      [] OTHER -> "top_category"

MatchField(dom, category_type) ==
    IF dom = "para" THEN GetCategoryField(category_type)
    ELSE RetailMatchField(category_type)

\* {"$regex": q, "$options": "i"} for a q without metacharacters: q occurs
\* in the field's text, letter case ignored
RegexMatch(q, v) ==
    /\ v.k = "text"
    /\ \E i \in 0..(Len(v.s) - Len(q)) :
           Lower(SubSeq(v.s, i + 1, i + Len(q))) = Lower(q)

\* stage 1, $match on the category field and on title / sku
BaseMatch(dom, r, doc) ==
    /\ Truthy(r.category) => doc[MatchField(dom, r.category_type)] = r.category
    /\ Truthy(r.search) =>
           RegexMatch(r.search.s, doc.title) \/ RegexMatch(r.search.s, doc.sku)

\* a conversion whose onError / onNull value is 0
ConvertPriceToZero(price) == IF price.k = "num" THEN price ELSE Zero

\* $convert to double with onError / onNull 9999999
ConvertPrice(price) == IF price.k = "num" THEN price ELSE Num(SENTINEL, 0)

\* $min over the converted prices of every shop of the mapping; null when
\* the mapping has no shop
DerivedBestPrice(doc) ==
    LET ps == {ConvertPrice(doc.shops[s].price) : s \in DOMAIN doc.shops}
    IN  IF ps = {} THEN Null
        ELSE CHOOSE m \in ps : \A o \in ps : NumLe(m, o)

\* $anyElementTrue over the available flags of every shop of the mapping
DerivedInStock(doc) == \E s \in DOMAIN doc.shops : doc.shops[s].available

\* stage 3, $match on the derived fields; a null derived price matches no
\* $gte / $lte against a number
FilterMatch(r, doc) ==
    LET d == DerivedBestPrice(doc)
    IN  /\ r.min_price # Null => (d.k = "num" /\ NumLe(r.min_price, d))
        /\ r.max_price # Null => (d.k = "num" /\ NumLe(d, r.max_price))
        /\ r.in_stock_only => DerivedInStock(doc)

\* the documents that reach the $facet stage, in collection order
Filtered(dom, r, c) ==
    SelectSeq(c, LAMBDA doc : BaseMatch(dom, r, doc) /\ FilterMatch(r, doc))

\* facet "metadata": $count gives no document for an empty input, and the
\* accessor then takes total = 0
FacetTotal(docs) == Len(docs)

\* facet "products": $skip (page - 1) * limit, then $limit
FacetProducts(docs, pg, limit) ==
    LET skip == (pg - 1) * limit
        last == IF skip + limit < Len(docs) THEN skip + limit ELSE Len(docs)
    IN  SubSeq(docs, skip + 1, last)

\* the page count by floor division
TotalPagesFloor(total, limit) ==
    IF total > 0 THEN total \div limit ELSE 1

\* (total + limit - 1) // limit if total > 0 else 1
TotalPages(total, limit) ==
    IF total > 0 THEN (total + limit - 1) \div limit ELSE 1

\* an except branch that answers with one page
FallbackPageOne(r) ==
    [products |-> <<>>, total |-> 0, page |-> r.page, limit |-> r.limit,
     totalPages |-> 1]

\* the response of the except branch
FallbackPage(r) ==
    [products |-> <<>>, total |-> 0, page |-> r.page, limit |-> r.limit,
     totalPages |-> 0]

\* the try block: the first return when the aggregation and every
\* parse_product of the slice succeed, the except branch otherwise
ListingResult(dom, r, c, fault) ==
    LET docs == Filtered(dom, r, c)
        products_raw == FacetProducts(docs, r.page, r.limit)
        products == [i \in 1..Len(products_raw) |->
                        ParseProduct(dom, products_raw[i], Text(<<>>), FALSE)]
    IN  IF fault = 1 \/ \E i \in 1..Len(products) : products[i].status = "error"
        THEN [exit |-> "except", page |-> FallbackPage(r)]
        ELSE [exit |-> "return",
              page |-> [products |-> products,
                        total |-> FacetTotal(docs),
                        page |-> r.page,
                        limit |-> r.limit,
                        totalPages |-> TotalPages(FacetTotal(docs), r.limit)]]

\* the /listing route: the page as the body; an exception would be a 500
RouteListing(out) ==
    IF out.exit = "raise" THEN [status |-> 500, body |-> Null]
    ELSE [status |-> 200, body |-> out.page]

(***************************************************************************)
(* The merged collection of the listing runs: any selection, in order, of  *)
(* MaxDocs documents that go through the shapes a shop mapping can take.   *)
(***************************************************************************)
Offer(price, available) ==
    [price |-> price, old_price |-> Null, available |-> available,
     url |-> Text(<<"u">>), images |-> <<IMG>>, brand |-> Text(<<"h", "p">>),
     specifications |-> Null]

ShopsShape(dom, n) ==
    LET s1 == ShopOrder(dom)[1]
        s2 == ShopOrder(dom)[2]
    IN  CASE n = 1 -> (s1 :> Offer(Num(80, 0), TRUE)) @@ (s2 :> Offer(Num(100, 0), FALSE))
          [] n = 2 -> (s1 :> Offer(Null, TRUE)) @@ (s2 :> Offer(Null, FALSE))
          [] n = 3 -> (s1 :> Offer(Num(100, 0), TRUE)) @@ (s2 :> Offer(Num(80, 4), FALSE))
          [] n = 4 -> (s1 :> Offer(Bad, FALSE)) @@ (s2 :> Offer(Num(80, 0), TRUE))
          [] n = 5 -> << >>
          [] n = 6 -> (s1 :> Offer(Zero, TRUE)) @@ (s2 :> Offer(Num(100, 0), FALSE))
          [] n = 7 -> (s1 :> Offer(Bad, TRUE)) @@ (s2 :> Offer(Null, TRUE))
          [] OTHER -> (s2 :> Offer(Num(120, 0), FALSE))

CatalogDoc(dom, i) ==
    Doc(i,
        Text(<<"s", IF i % 2 = 0 THEN "a" ELSE "b">>),
        Text(<<"p", IF i % 3 = 0 THEN "b" ELSE "A">>),
        Text(<<"c", IF i % 2 = 0 THEN "b" ELSE "a">>),
        Null,
        Text(<<"c", IF i % 3 = 0 THEN "B" ELSE "a">>),
        ShopsShape(dom, i))

Collections(dom) ==
    {SelectSeq([i \in 1..MaxDocs |-> CatalogDoc(dom, i)],
               LAMBDA d : d.id \in S) : S \in SUBSET (1..MaxDocs)}

ListingRequests ==
    [category : {Null, Text(<<"c", "a">>)},
     category_type : {"subcategory", "top"},
     search : {Null, Text(<<"a">>)},
     min_price : {Null, Num(80, 0)},
     max_price : {Null, Num(100, 0)},
     in_stock_only : BOOLEAN,
     page : 1..MaxPage,
     limit : 1..MaxLimit]

InitList ==
    /\ domain \in Domains
    /\ raw = Null
    /\ product = NoProduct
    /\ coll \in Collections(domain)
    /\ faultAt \in {0, 1}
    /\ req = Null
    /\ page = Null
    /\ exit = "none"
    /\ details = <<>>
    /\ calls = 0
    /\ resp = Null
    /\ AuthAtRest

GetListing ==
    /\ exit = "none"
    /\ \E r \in ListingRequests :
           /\ req' = r
           /\ page' = ListingResult(domain, r, coll, faultAt).page
           /\ exit' = ListingResult(domain, r, coll, faultAt).exit
           /\ resp' = RouteListing(ListingResult(domain, r, coll, faultAt))
    /\ calls' = 1
    /\ UNCHANGED <<domain, raw, product, coll, faultAt, details>>
    /\ UNCHANGED authvars

NextList == GetListing

SpecList == InitList /\ [][NextList]_vars

(***************************************************************************)
(* parse_single_shop_product / parse_single_para_shop_product.             *)
(***************************************************************************)
\* float(p.get("price", 0)) or float(p["old_price"]) raises
SingleRaises(p) ==
    \/ (p.price # Null /\ FloatRaises(p.price))
    \/ (Truthy(p.old_price) /\ FloatRaises(p.old_price))

\* brand = p.get("brand", "Generic"); if brand: brand = brand.upper()
SingleBrandOf(p) ==
    IF p.brand = Null THEN Upper(GENERIC)
    ELSE IF Truthy(p.brand) THEN Upper(p.brand.s) ELSE p.brand.s

SingleImageOf(dom, p) ==
    IF dom = "para"
    THEN (IF p.images # <<>> THEN p.images[1] ELSE PLACEHOLDER)
    ELSE FirstNonBanner(p.images)

\* a single-shop parser that rounds the entry's price but not bestPrice
ParseSingleRawBest(dom, p, shop_name) ==
    IF SingleRaises(p) THEN [status |-> "error"]
    ELSE
      LET price == IF p.price = Null THEN Zero ELSE p.price
          old_price == IF Truthy(p.old_price) THEN p.old_price ELSE Null
          rprice == IF dom = "para" THEN Round(price, PARA_DP) ELSE price
          rold == IF dom = "para" /\ Truthy(old_price)
                  THEN Round(old_price, PARA_DP) ELSE old_price
      IN  [status |-> "ok",
           id |-> p.id,
           name |-> GetOr(p.title, UNKNOWN_PRODUCT),
           brand |-> SingleBrandOf(p),
           bestPrice |-> price,
           originalPrice |-> rold,
           image |-> SingleImageOf(dom, p),
           description |-> GetOr(p.long_text, GetOr(p.title, Text(<<>>))),
           inStock |-> p.available,
           category |-> IF dom = "para"
                        THEN OrElse(p.low_category, p.subcategory)
                        ELSE OrElse(p.subcategory, p.low_category),
           topCategory |-> IF dom = "para" THEN p.top_category ELSE Null,
           shopPrices |-> <<[shop |-> DisplayName(shop_name),
                             price |-> rprice,
                             oldPrice |-> rold,
                             available |-> p.available,
                             url |-> p.url]>>,
           specifications |-> IF dom = "para" THEN [k |-> "map", m |-> << >>]
                              ELSE p.specifications]

ParseSingle(dom, p, shop_name) ==
    IF SingleRaises(p) THEN [status |-> "error"]
    ELSE
      LET price == IF p.price = Null THEN Zero ELSE p.price
          old_price == IF Truthy(p.old_price) THEN p.old_price ELSE Null
          rprice == IF dom = "para" THEN Round(price, PARA_DP) ELSE price
          rold == IF dom = "para" /\ Truthy(old_price)
                  THEN Round(old_price, PARA_DP) ELSE old_price
      IN  [status |-> "ok",
           id |-> p.id,
           name |-> GetOr(p.title, UNKNOWN_PRODUCT),
           brand |-> SingleBrandOf(p),
           bestPrice |-> rprice,
           originalPrice |-> rold,
           image |-> SingleImageOf(dom, p),
           description |-> GetOr(p.long_text, GetOr(p.title, Text(<<>>))),
           inStock |-> p.available,
           category |-> IF dom = "para"
                        THEN OrElse(p.low_category, p.subcategory)
                        ELSE OrElse(p.subcategory, p.low_category),
           topCategory |-> IF dom = "para" THEN p.top_category ELSE Null,
           shopPrices |-> <<[shop |-> DisplayName(shop_name),
                             price |-> rprice,
                             oldPrice |-> rold,
                             available |-> p.available,
                             url |-> p.url]>>,
           specifications |-> IF dom = "para" THEN [k |-> "map", m |-> << >>]
                              ELSE p.specifications]

(***************************************************************************)
(* Distinct categories: get_categories, get_all_low_categories,            *)
(* get_para_categories.                                                    *)
(***************************************************************************)
CharCode(c) ==
    CASE c = "A" -> 65 [] c = "B" -> 66 [] c = "C" -> 67
      [] c = "a" -> 97 [] c = "b" -> 98 [] c = "c" -> 99 [] c = "d" -> 100
      [] c = "h" -> 104 [] c = "p" -> 112 [] c = "s" -> 115
      [] OTHER -> 0

\* a < b for Python strings: by code point, a proper prefix first
RECURSIVE TextLt(_, _)
TextLt(a, b) ==
    IF b = <<>> THEN FALSE
    ELSE IF a = <<>> THEN TRUE
    ELSE IF a[1] # b[1] THEN CharCode(a[1]) < CharCode(b[1])
    ELSE TextLt(Tail(a), Tail(b))

\* sorted(...) of a set of distinct strings
RECURSIVE SortedTexts(_)
SortedTexts(S) ==
    IF S = {} THEN <<>>
    ELSE LET m == CHOOSE x \in S : \A y \in S \ {x} : TextLt(x.s, y.s)
         IN  <<m>> \o SortedTexts(S \ {m})

\* collection.distinct(field)
Distinct(c, field) == {c[i][field] : i \in 1..Len(c)}

\* the field a category request reads: the two retail accessors each read
\* their own field, the parapharmacy one maps its type
CategoriesField(dom, kind) ==
    IF dom = "para" THEN GetCategoryField(kind) ELSE kind

\* try: sorted([c for c in distinct if c]); except: []
Categories(dom, kind, c, fault) ==
    IF fault = 1 THEN [exit |-> "except", body |-> <<>>, calls |-> 1]
    ELSE [exit |-> "return",
          body |-> SortedTexts({v \in Distinct(c, CategoriesField(dom, kind)) :
                                    Truthy(v)}),
          calls |-> 1]

\* the /categories and /low-categories routes
RouteCategories(out) ==
    IF out.exit = "raise" THEN [status |-> 500, body |-> Null]
    ELSE [status |-> 200, body |-> out.body]

(***************************************************************************)
(* Lookup by id and by SKU.                                                *)
(***************************************************************************)
\* the number of sources: merged_products, then one collection per shop
SourceCount(dom) == 1 + Len(ShopOrder(dom))

\* the collection of source n
SourceColl(n, c, det) == IF n = 1 THEN c ELSE det[n - 1]

\* find_one({field: v}): the first matching document in natural order
Matches(c, field, v) == SelectSeq(c, LAMBDA d : d[field] = v)

ParseFound(dom, n, doc, include_specs) ==
    IF n = 1 THEN ParseProduct(dom, doc, Text(<<>>), include_specs)
    ELSE ParseSingle(dom, doc, ShopOrder(dom)[n - 1])

\* a lookup that queries every source and keeps the last match
LookupLastMatch(dom, field, v, c, det, fault) ==
    LET hits == {n \in 1..SourceCount(dom) :
                    Matches(SourceColl(n, c, det), field, v) # <<>>}
        last == CHOOSE n \in hits : \A m \in hits : m <= n
    IN  IF fault \in 1..SourceCount(dom)
        THEN [exit |-> "raise", product |-> NoProduct, calls |-> fault]
        ELSE IF hits = {}
        THEN [exit |-> "return", product |-> NoProduct,
              calls |-> SourceCount(dom)]
        ELSE [exit |-> "return",
              product |-> ParseFound(dom, last,
                              Matches(SourceColl(last, c, det), field, v)[1],
                              TRUE),
              calls |-> SourceCount(dom)]

\* the shared body of the two lookups: sources are queried in order up to
\* the first that has a match
Lookup(dom, field, v, c, det, fault) ==
    LET hits == {n \in 1..SourceCount(dom) :
                    Matches(SourceColl(n, c, det), field, v) # <<>>}
        first == IF hits = {} THEN SourceCount(dom)
                 ELSE CHOOSE n \in hits : \A m \in hits : n <= m
    IN  IF fault \in 1..first
        THEN [exit |-> "raise", product |-> NoProduct, calls |-> fault]
        ELSE IF hits = {}
        THEN [exit |-> "return", product |-> NoProduct, calls |-> first]
        ELSE LET prod == ParseFound(dom, first,
                             Matches(SourceColl(first, c, det), field, v)[1],
                             TRUE)
             IN  [exit |-> IF prod.status = "error" THEN "raise" ELSE "return",
                  product |-> prod,
                  calls |-> first]

\* get_product_by_id: a malformed id returns None before any query
LookupById(dom, product_id, c, det, fault) ==
    IF ~product_id.valid
    THEN [exit |-> "return", product |-> NoProduct, calls |-> 0]
    ELSE Lookup(dom, "id", product_id.oid, c, det, fault)

LookupBySku(dom, sku, c, det, fault) ==
    Lookup(dom, "sku", Text(sku), c, det, fault)

\* a lookup route that answers a failure with 404
RouteLookupNotFound(out) ==
    IF out.exit = "raise" \/ out.product.status # "ok"
    THEN [status |-> 404, body |-> Null]
    ELSE [status |-> 200, body |-> out.product]

\* a lookup route that takes a None from the service for a failure
RouteLookupNoneFails(out) ==
    IF out.exit = "raise" \/ out.product.status # "ok"
    THEN [status |-> 500, body |-> Null]
    ELSE [status |-> 200, body |-> out.product]

\* the /by-sku/{sku} and /{product_id} routes
RouteLookup(out) ==
    IF out.exit = "raise" THEN [status |-> 500, body |-> Null]
    ELSE IF out.product.status # "ok" THEN [status |-> 404, body |-> Null]
    ELSE [status |-> 200, body |-> out.product]

(***************************************************************************)
(* Autocomplete search.                                                    *)
(***************************************************************************)
SearchResultOf(prod) ==
    [id |-> prod.id, name |-> prod.name, brand |-> prod.brand,
     bestPrice |-> prod.bestPrice, image |-> prod.image,
     inStock |-> prod.inStock]

\* find({"$or": [title regex, sku regex]}).limit(n), n >= 1
FindMatching(c, q, n) ==
    LET m == SelectSeq(c, LAMBDA d :
                 RegexMatch(q, d.title) \/ RegexMatch(q, d.sku))
    IN  SubSeq(m, 1, IF n < Len(m) THEN n ELSE Len(m))

\* a dedup test that only knows the SKUs of the cursor it goes down
AcceptedPerCursor(docs, seen_skus) ==
    SelectSeq([i \in 1..Len(docs) |-> i], LAMBDA i :
        /\ Truthy(docs[i].sku)
        /\ \A j \in 1..(i - 1) : docs[j].sku # docs[i].sku)

\* the positions of `docs` that pass "if sku and sku not in seen_skus" as
\* the loop goes down the cursor: a truthy SKU not seen before the loop and
\* not carried by an earlier document of the cursor
Accepted(docs, seen_skus) ==
    SelectSeq([i \in 1..Len(docs) |-> i], LAMBDA i :
        /\ Truthy(docs[i].sku)
        /\ docs[i].sku \notin seen_skus
        /\ \A j \in 1..(i - 1) : docs[j].sku # docs[i].sku)

\* the accepted positions the loop gets to: the loops over the shop
\* collections (n > 1) break once `limit` results are held
Processed(n, limit, held, accepted) ==
    IF n > 1 /\ limit - held < Len(accepted)
    THEN SubSeq(accepted, 1, limit - held)
    ELSE accepted

\* parse_product / parse_single_shop_product of the documents at idx
ParsedAt(dom, n, docs, idx) ==
    [k \in 1..Len(idx) |-> ParseFound(dom, n, docs[idx[k]], FALSE)]

\* results and seen_skus after the loop; an exception of a parser leaves it
Collected(acc, docs, idx, prods) ==
    [results |-> IF \E k \in 1..Len(idx) : prods[k].status # "ok"
                 THEN acc.results
                 ELSE acc.results
                          \o [k \in 1..Len(idx) |-> SearchResultOf(prods[k])],
     seen_skus |-> acc.seen_skus \cup {docs[idx[k]].sku : k \in 1..Len(idx)},
     raised |-> \E k \in 1..Len(idx) : prods[k].status # "ok"]

CollectAt(dom, n, docs, acc, idx) ==
    Collected(acc, docs, idx, ParsedAt(dom, n, docs, idx))

\* one "async for p in cursor" loop over the documents of source n: every
\* accepted document is parsed and appended, up to the break
Collect(dom, n, docs, limit, acc) ==
    CollectAt(dom, n, docs, acc,
              Processed(n, limit, Len(acc.results),
                        Accepted(docs, acc.seen_skus)))

\* a loop over the shop collections that lacks the test of len(results)
\* before it queries a collection
RECURSIVE SearchShopsAll(_, _, _, _, _, _, _, _)
RECURSIVE AfterShopAll(_, _, _, _, _, _, _, _)
SearchShopsAll(dom, n, q, limit, remaining, det, fault, acc) ==
    IF n > SourceCount(dom)
    THEN [exit |-> "return", acc |-> acc, calls |-> n - 1]
    ELSE IF fault = n THEN [exit |-> "raise", acc |-> acc, calls |-> n]
    ELSE AfterShopAll(dom, n, q, limit, remaining, det, fault,
                      Collect(dom, n, FindMatching(det[n - 1], q, remaining),
                              limit, acc))

AfterShopAll(dom, n, q, limit, remaining, det, fault, next) ==
    IF next.raised THEN [exit |-> "raise", acc |-> next, calls |-> n]
    ELSE SearchShopsAll(dom, n + 1, q, limit, remaining, det, fault, next)

\* the loop over the shop collections, from source n on, with the fetch cap
\* `remaining` computed before the loop
RECURSIVE SearchShops(_, _, _, _, _, _, _, _)
RECURSIVE AfterShop(_, _, _, _, _, _, _, _)
SearchShops(dom, n, q, limit, remaining, det, fault, acc) ==
    IF n > SourceCount(dom) \/ Len(acc.results) >= limit
    THEN [exit |-> "return", acc |-> acc, calls |-> n - 1]
    ELSE IF fault = n THEN [exit |-> "raise", acc |-> acc, calls |-> n]
    ELSE AfterShop(dom, n, q, limit, remaining, det, fault,
                   Collect(dom, n, FindMatching(det[n - 1], q, remaining),
                           limit, acc))

\* after the loop over the collection of source n
AfterShop(dom, n, q, limit, remaining, det, fault, next) ==
    IF next.raised THEN [exit |-> "raise", acc |-> next, calls |-> n]
    ELSE SearchShops(dom, n + 1, q, limit, remaining, det, fault, next)

\* results[:limit]
Cut(results, limit) ==
    SubSeq(results, 1, IF limit < Len(results) THEN limit ELSE Len(results))

\* what the service gives once the loop over the shop collections is left
SearchReturn(limit, rest) ==
    [exit |-> rest.exit,
     results |-> IF rest.exit = "return" THEN Cut(rest.acc.results, limit)
                 ELSE <<>>,
     calls |-> rest.calls]

\* "if len(results) < limit": the shop collections are searched with
\* remaining = limit - len(results)
AfterMerged(dom, q, limit, det, fault, merged) ==
    IF merged.raised THEN [exit |-> "raise", results |-> <<>>, calls |-> 1]
    ELSE IF Len(merged.results) >= limit
    THEN [exit |-> "return", results |-> Cut(merged.results, limit), calls |-> 1]
    ELSE SearchReturn(limit,
                      SearchShops(dom, 2, q, limit, limit - Len(merged.results),
                                  det, fault, merged))

NoResults == [results |-> <<>>, seen_skus |-> {}, raised |-> FALSE]

\* search_products / search_para_products, limit >= 1
Search(dom, q, limit, c, det, fault) ==
    IF fault = 1 THEN [exit |-> "raise", results |-> <<>>, calls |-> 1]
    ELSE AfterMerged(dom, q, limit, det, fault,
                     Collect(dom, 1, FindMatching(c, q, limit), limit, NoResults))

\* the response of the /search route for what the service gave
SearchResponse(out) ==
    [exit |-> out.exit, calls |-> out.calls,
     resp |-> IF out.exit = "raise" THEN [status |-> 500, body |-> Null]
              ELSE [status |-> 200, body |-> out.results]]

\* a /search route that hands every query to the service
RouteSearchUnguarded(dom, q, limit, c, det, fault) ==
    SearchResponse(Search(dom, q, limit, c, det, fault))

\* the /search route: a query shorter than 2 characters is answered with
\* [] before the service is called
RouteSearch(dom, q, limit, c, det, fault) ==
    IF Len(q) < 2
    THEN [exit |-> "return", calls |-> 0, resp |-> [status |-> 200, body |-> <<>>]]
    ELSE SearchResponse(Search(dom, q, limit, c, det, fault))

(***************************************************************************)
(* The collections of the accessor runs.                                   *)
(***************************************************************************)
\* document i of the single-shop collection of the n-th shop
DetailDoc(n, i) ==
    [id |-> 10 * n + i,
     sku |-> CASE (n + i) % 4 = 0 -> Null
               [] (n + i) % 4 = 1 -> Text(<<"s", "c">>)
               [] (n + i) % 4 = 2 -> Text(<<"s", "b">>)
               [] OTHER -> Text(<<"s", "d">>),
     title |-> Text(<<"p", IF i % 2 = 0 THEN "b" ELSE "A">>),
     price |-> CASE (n + i) % 5 = 0 -> Bad
                 [] (n + i) % 5 = 1 -> Null
                 [] OTHER -> Num(80, 4 * (i % 2)),
     old_price |-> IF n = 2 THEN Num(120, 6) ELSE Null,
     available |-> (n + i) % 2 = 0,
     url |-> Text(<<"u">>),
     images |-> IF n = 1 THEN <<>> ELSE <<IMG>>,
     brand |-> IF n = 3 THEN Null ELSE Text(<<"h", "p">>),
     long_text |-> IF n = 2 THEN Text(<<"d">>) ELSE Null,
     subcategory |-> Text(<<"c", "a">>),
     low_category |-> Null,
     top_category |-> Null,
     specifications |-> IF n = 1 THEN [k |-> "map", m |-> ("cpu" :> "i5")]
                        ELSE Null]

DetailColls(n) ==
    {SelectSeq([i \in 1..MaxDetail |-> DetailDoc(n, i)],
               LAMBDA d : d.id - 10 * n \in S) : S \in SUBSET (1..MaxDetail)}

MergedColls(dom) ==
    {SelectSeq([i \in 1..MaxMerged |-> CatalogDoc(dom, i)],
               LAMBDA d : d.id \in S) : S \in SUBSET (1..MaxMerged)}

InitAcc ==
    /\ domain \in Domains
    /\ raw = Null
    /\ product = NoProduct
    /\ coll \in MergedColls(domain)
    /\ details \in [1..Len(ShopOrder(domain)) -> UNION {DetailColls(n) : n \in 1..3}]
    /\ \A n \in 1..Len(ShopOrder(domain)) : details[n] \in DetailColls(n)
    /\ faultAt \in 0..SourceCount(domain)
    /\ req = Null
    /\ page = Null
    /\ exit = "none"
    /\ calls = 0
    /\ resp = Null
    /\ AuthAtRest

CategoryKinds(dom) ==
    IF dom = "para" THEN {"top_category", "low", "subcategory", "other"}
    ELSE {"subcategory", "low_category"}

ReadCategories ==
    /\ exit = "none"
    /\ \E kind \in CategoryKinds(domain) :
           LET out == Categories(domain, kind, coll, faultAt)
           IN  /\ req' = [op |-> "categories", kind |-> kind]
               /\ exit' = out.exit
               /\ calls' = out.calls
               /\ resp' = RouteCategories(out)
    /\ UNCHANGED <<domain, raw, product, coll, faultAt, page, details>>
    /\ UNCHANGED authvars

SkuKeys == {<<"s", "a">>, <<"s", "b">>, <<"s", "c">>, <<"s", "d">>}

GetBySku ==
    /\ exit = "none"
    /\ \E sku \in SkuKeys :
           LET out == LookupBySku(domain, sku, coll, details, faultAt)
           IN  /\ req' = [op |-> "by_sku", sku |-> sku]
               /\ exit' = out.exit
               /\ calls' = out.calls
               /\ resp' = RouteLookup(out)
    /\ UNCHANGED <<domain, raw, product, coll, faultAt, page, details>>
    /\ UNCHANGED authvars

IdKeys ==
    {[valid |-> FALSE, oid |-> 0]}
        \cup {[valid |-> TRUE, oid |-> n] : n \in {1, 2, 11, 21, 31, 99}}

GetById ==
    /\ exit = "none"
    /\ \E product_id \in IdKeys :
           LET out == LookupById(domain, product_id, coll, details, faultAt)
           IN  /\ req' = [op |-> "by_id", product_id |-> product_id]
               /\ exit' = out.exit
               /\ calls' = out.calls
               /\ resp' = RouteLookup(out)
    /\ UNCHANGED <<domain, raw, product, coll, faultAt, page, details>>
    /\ UNCHANGED authvars

Queries == {<<"p">>, <<"p", "a">>, <<"s", "B">>, <<"s">>}

SearchProducts ==
    /\ exit = "none"
    /\ \E q \in Queries, limit \in 1..MaxSearchLimit :
           LET out == RouteSearch(domain, q, limit, coll, details, faultAt)
           IN  /\ req' = [op |-> "search", q |-> q, limit |-> limit]
               /\ exit' = out.exit
               /\ calls' = out.calls
               /\ resp' = out.resp
    /\ UNCHANGED <<domain, raw, product, coll, faultAt, page, details>>
    /\ UNCHANGED authvars

NextAcc == ReadCategories \/ GetBySku \/ GetById \/ SearchProducts

SpecAcc == InitAcc /\ [][NextAcc]_vars

(***************************************************************************)
(* Search runs over shop collections of up to two matching documents, the  *)
(* first of which repeats a SKU of the merged collection.                  *)
(***************************************************************************)
CapDoc(n, i) ==
    [id |-> 10 * n + i,
     sku |-> IF i = 1 THEN Text(<<"s", "b">>)
             ELSE Text(<<"s", IF n = 1 THEN "d" ELSE "c">>),
     title |-> Text(<<"p", "A">>),
     price |-> Num(80, 0),
     old_price |-> Null,
     available |-> TRUE,
     url |-> Text(<<"u">>),
     images |-> <<IMG>>,
     brand |-> Text(<<"h", "p">>),
     long_text |-> Null,
     subcategory |-> Text(<<"c", "a">>),
     low_category |-> Null,
     top_category |-> Null,
     specifications |-> Null]

CapColls(n) ==
    {SelectSeq(<<CapDoc(n, 1), CapDoc(n, 2)>>, LAMBDA d : d.id - 10 * n \in S) :
         S \in SUBSET {1, 2}}

InitCap ==
    /\ domain \in Domains
    /\ raw = Null
    /\ product = NoProduct
    /\ coll \in MergedColls(domain)
    /\ details \in [1..Len(ShopOrder(domain)) -> UNION {CapColls(n) : n \in 1..3}]
    /\ \A n \in 1..Len(ShopOrder(domain)) : details[n] \in CapColls(n)
    /\ faultAt = 0
    /\ req = Null
    /\ page = Null
    /\ exit = "none"
    /\ calls = 0
    /\ resp = Null
    /\ AuthAtRest

NextCap == SearchProducts

SpecCap == InitCap /\ [][NextCap]_vars

(***************************************************************************)
(* The process lifespan and the auth endpoints.  Every await of a handler  *)
(* is one step, so that the requests two worker tasks serve interleave at  *)
(* the store calls as they do on the event loop.                           *)
(***************************************************************************)
MaxRequests == 4

TickMinutes == 5

MaxNow == 20

\* timedelta(minutes=15) of forgot_password
RESET_TTL == 15

\* class MongoDB: client = None
Unassigned == [state |-> "none", assigned |-> 0]

\* a startup that leaves the handle as the class defines it
ConnectLater(c) == c

\* db.client = AsyncIOMotorClient(...)
connect_to_mongo(c) == [state |-> "open", assigned |-> c.assigned + 1]

\* if db.client: db.client.close()
close_mongo_connection(c) ==
    IF c.state # "none" THEN [c EXCEPT !.state = "closed"] ELSE c

\* the catalogue's variables, which no auth or lifespan step touches
catrest == <<domain, raw, product, coll, faultAt, req, page, exit, details, calls>>

\* lifespan, up to the yield: connect and ping; a failed ping re-raises and
\* the application never serves
Startup ==
    /\ phase = "boot"
    /\ client' = connect_to_mongo(client)
    /\ \E ping \in BOOLEAN : phase' = IF ping THEN "serving" ELSE "failed"
    /\ UNCHANGED <<catrest, resp, users, procs, now, tokens, started>>

\* lifespan, after the yield: the server has drained its requests
Shutdown ==
    /\ phase = "serving"
    /\ \A p \in Procs : procs[p].op = "idle"
    /\ client' = close_mongo_connection(client)
    /\ phase' = "stopped"
    /\ UNCHANGED <<catrest, resp, users, procs, now, tokens, started>>

\* datetime.utcnow() advances
Tick ==
    /\ phase = "serving"
    /\ now + TickMinutes <= MaxNow
    /\ now' = now + TickMinutes
    /\ UNCHANGED <<catrest, resp, client, phase, users, procs, tokens, started>>

Emails == {"a", "b"}

\* settings.MAIL_USERNAME
MAIL_USERNAME == "a"

SignupPasswords == {"p1"}

NewPasswords == {"p2"}

Passwords == SignupPasswords \cup NewPasswords

\* secrets.token_hex(3)
VerificationCodes == {Text(<<"c1">>), Text(<<"c2">>)}

\* str(random.randint(100000, 999999))
ResetCodes == {Text(<<"r1">>), Text(<<"r2">>)}

Time(t) == [k |-> "time", t |-> t]

get_password_hash(password) == <<"hash", password>>

verify_password(password, password_hash) == password_hash = get_password_hash(password)

\* id_info['sub'] of the Google account that owns the email
GoogleSub(email) == Text(<<"g", email>>)

\* the document signup inserts
SignupUser(id, email, password, verification_code) ==
    [id |-> id, email |-> email,
     password_hash |-> get_password_hash(password),
     role |-> "client", is_verified |-> FALSE,
     verification_code |-> verification_code,
     reset_code |-> Null, reset_code_expires |-> Null, google_id |-> Null]

\* the document google_login inserts
GoogleUser(id, email) ==
    [id |-> id, email |-> email,
     password_hash |-> get_password_hash("token_urlsafe"),
     role |-> IF email = MAIL_USERNAME THEN "admin" ELSE "client",
     is_verified |-> TRUE,
     verification_code |-> Null,
     reset_code |-> Null, reset_code_expires |-> Null,
     google_id |-> GoogleSub(email)]

\* db.users.find_one({"email": email}): the position of the first document
\* with the email, 0 when there is none
find_one(us, email) ==
    IF \E i \in 1..Len(us) : us[i].email = email
    THEN CHOOSE i \in 1..Len(us) :
             /\ us[i].email = email
             /\ \A j \in 1..(i - 1) : us[j].email # email
    ELSE 0

\* db.users.update_one({"email": email}, {"$set": ...}) of verify_email
SetVerified(us, email) ==
    IF find_one(us, email) = 0 THEN us
    ELSE [us EXCEPT ![find_one(us, email)] =
             [@ EXCEPT !.is_verified = TRUE, !.verification_code = Text(<<>>)]]

\* db.users.update_one({"email": email}, {"$set": ...}) of forgot_password
SetResetCode(us, email, reset_code, expires_at) ==
    IF find_one(us, email) = 0 THEN us
    ELSE [us EXCEPT ![find_one(us, email)] =
             [@ EXCEPT !.reset_code = reset_code, !.reset_code_expires = expires_at]]

\* the check of the code alone, whatever its expiry
ResetCheckNoExpiry(user, code, utcnow) ==
    IF ~Truthy(user.reset_code) \/ user.reset_code # code THEN "invalid" ELSE "ok"

\* the two checks of reset_password on the document it read
ResetCheck(user, code, utcnow) ==
    IF ~Truthy(user.reset_code) \/ user.reset_code # code THEN "invalid"
    ELSE IF user.reset_code_expires = Null \/ user.reset_code_expires.t < utcnow
         THEN "expired"
         ELSE "ok"

\* db.users.update_one({"_id": user["_id"]}, {"$set": ...}) of reset_password
SetPassword(us, id, new_password) ==
    [us EXCEPT ![id] =
        [@ EXCEPT !.password_hash = get_password_hash(new_password),
                  !.reset_code = Null, !.reset_code_expires = Null]]

\* the keys of google_login's update_data for an existing user
GoogleUpdateData(user, email) ==
    (IF ~Truthy(user.google_id) THEN {"google_id"} ELSE {})
    \cup (IF ~user.is_verified THEN {"is_verified"} ELSE {})
    \cup (IF email = MAIL_USERNAME /\ user.role # "admin" THEN {"role"} ELSE {})

\* db.users.update_one({"_id": user["_id"]}, {"$set": update_data})
SetGoogle(us, id, email, update_data) ==
    [us EXCEPT ![id] =
        [@ EXCEPT !.google_id = IF "google_id" \in update_data THEN GoogleSub(email) ELSE @,
                  !.is_verified = IF "is_verified" \in update_data THEN TRUE ELSE @,
                  !.role = IF "role" \in update_data THEN "admin" ELSE @]]

Response(status, detail) == [status |-> status, detail |-> detail]

\* a request arrives at an idle worker task of the serving process
Begin(p) ==
    /\ phase = "serving"
    /\ procs[p].op = "idle"
    /\ started < MaxRequests
    /\ started' = started + 1

\* the request of task p is answered
Finish(p, status, detail) ==
    /\ procs' = [procs EXCEPT ![p] = Idle]
    /\ resp' = Response(status, detail)

\* the handler of task p awaits its next store call
Await(p, frame) ==
    /\ procs' = [procs EXCEPT ![p] = frame]
    /\ resp' = resp

At(p, op, pc) ==
    /\ phase = "serving"
    /\ procs[p].op = op
    /\ procs[p].pc = pc

\* signup up to its insert: the existence check
SignupFind(p) ==
    /\ Begin(p)
    /\ \E email \in Emails, password \in SignupPasswords :
           IF find_one(users, email) # 0
           THEN Finish(p, 400, "Email already registered")
           ELSE Await(p, [op |-> "signup", pc |-> "insert",
                          email |-> email, password |-> password])
    /\ UNCHANGED <<catrest, client, phase, users, now, tokens>>

\* signup from the code's generation on: insert_one
SignupInsert(p) ==
    /\ At(p, "signup", "insert")
    /\ \E verification_code \in VerificationCodes :
           users' = Append(users, SignupUser(Len(users) + 1, procs[p].email,
                                             procs[p].password, verification_code))
    /\ Finish(p, 200, "user")
    /\ UNCHANGED <<catrest, client, phase, now, tokens, started>>

\* signin: one find_one, then the token
Signin(p) ==
    /\ Begin(p)
    /\ \E email \in Emails, password \in Passwords :
           LET i == find_one(users, email) IN
           IF i = 0 \/ ~verify_password(password, users[IF i = 0 THEN 1 ELSE i].password_hash)
           THEN Finish(p, 400, "Incorrect email or password") /\ tokens' = tokens
           ELSE IF ~users[i].is_verified
                THEN Finish(p, 400, "Email not verified") /\ tokens' = tokens
                ELSE Finish(p, 200, "token") /\ tokens' = tokens \cup {users[i].email}
    /\ UNCHANGED <<catrest, client, phase, users, now>>

\* verify_email up to its update: find_one and the comparison of the codes
VerifyEmailFind(p) ==
    /\ Begin(p)
    /\ \E email \in Emails, code \in VerificationCodes \cup {Text(<<>>)} :
           LET i == find_one(users, email) IN
           IF i = 0 THEN Finish(p, 400, "User not found")
           ELSE IF users[i].verification_code # code
                THEN Finish(p, 400, "Invalid verification code")
                ELSE Await(p, [op |-> "verify_email", pc |-> "update",
                               email |-> email, code |-> code])
    /\ UNCHANGED <<catrest, client, phase, users, now, tokens>>

VerifyEmailUpdate(p) ==
    /\ At(p, "verify_email", "update")
    /\ users' = SetVerified(users, procs[p].email)
    /\ Finish(p, 200, "Email verified successfully")
    /\ UNCHANGED <<catrest, client, phase, now, tokens, started>>

\* forgot_password up to its update: find_one, the code and its expiry
ForgotPasswordFind(p) ==
    /\ Begin(p)
    /\ \E email \in Emails :
           IF find_one(users, email) = 0
           THEN Finish(p, 200, "If email exists, a verification code will be sent")
           ELSE \E reset_code \in ResetCodes :
                    Await(p, [op |-> "forgot_password", pc |-> "update",
                              email |-> email, reset_code |-> reset_code,
                              expires_at |-> Time(now + RESET_TTL)])
    /\ UNCHANGED <<catrest, client, phase, users, now, tokens>>

ForgotPasswordUpdate(p) ==
    /\ At(p, "forgot_password", "update")
    /\ users' = SetResetCode(users, procs[p].email, procs[p].reset_code,
                             procs[p].expires_at)
    /\ Finish(p, 200, "If email exists, a verification code will be sent")
    /\ UNCHANGED <<catrest, client, phase, now, tokens, started>>

\* reset_password up to its update: find_one and the two checks
ResetPasswordFind(p) ==
    /\ Begin(p)
    /\ \E email \in Emails, code \in ResetCodes, new_password \in NewPasswords :
           LET i == find_one(users, email) IN
           IF i = 0 THEN Finish(p, 400, "Invalid email or verification code")
           ELSE IF ResetCheck(users[i], code, now) = "invalid"
                THEN Finish(p, 400, "Invalid email or verification code")
                ELSE IF ResetCheck(users[i], code, now) = "expired"
                     THEN Finish(p, 400, "Verification code has expired")
                     ELSE Await(p, [op |-> "reset_password", pc |-> "update",
                                    user |-> users[i], code |-> code,
                                    new_password |-> new_password, utcnow |-> now])
    /\ UNCHANGED <<catrest, client, phase, users, now, tokens>>

ResetPasswordUpdate(p) ==
    /\ At(p, "reset_password", "update")
    /\ users' = SetPassword(users, procs[p].user.id, procs[p].new_password)
    /\ Finish(p, 200, "Password reset successfully")
    /\ UNCHANGED <<catrest, client, phase, now, tokens, started>>

\* update_profile's dependency get_current_user: the bearer of a token asks
\* for a new email
GetCurrentUser(p) ==
    /\ Begin(p)
    /\ \E sub \in tokens, email \in Emails :
           LET i == find_one(users, sub) IN
           IF i = 0 THEN Finish(p, 401, "Could not validate credentials")
           ELSE Await(p, [op |-> "update_profile",
                          pc |-> IF email # users[i].email THEN "find" ELSE "update",
                          current_user |-> users[i], email |-> email])
    /\ UNCHANGED <<catrest, client, phase, users, now, tokens>>

\* update_profile: the existence check of the new email
UpdateProfileFind(p) ==
    /\ At(p, "update_profile", "find")
    /\ IF find_one(users, procs[p].email) # 0
       THEN Finish(p, 400, "Email already registered")
       ELSE Await(p, [procs[p] EXCEPT !.pc = "update"])
    /\ UNCHANGED <<catrest, client, phase, users, now, tokens, started>>

\* update_profile: update_one by _id and the read of the updated document
UpdateProfileUpdate(p) ==
    /\ At(p, "update_profile", "update")
    /\ users' = [users EXCEPT ![procs[p].current_user.id].email = procs[p].email]
    /\ Finish(p, 200, "user")
    /\ UNCHANGED <<catrest, client, phase, now, tokens, started>>

\* google_login up to its write: the verified token's email and find_one
GoogleLoginFind(p) ==
    /\ Begin(p)
    /\ \E email \in Emails :
           LET i == find_one(users, email) IN
           IF i = 0
           THEN Await(p, [op |-> "google_login", pc |-> "insert", email |-> email])
                /\ tokens' = tokens
           ELSE IF GoogleUpdateData(users[i], email) = {}
                THEN Finish(p, 200, "token") /\ tokens' = tokens \cup {users[i].email}
                ELSE Await(p, [op |-> "google_login", pc |-> "update", email |-> email,
                               user |-> users[i],
                               update_data |-> GoogleUpdateData(users[i], email)])
                     /\ tokens' = tokens
    /\ UNCHANGED <<catrest, client, phase, users, now>>

\* google_login for a new user: insert_one, the read by _id and the token
GoogleLoginInsert(p) ==
    /\ At(p, "google_login", "insert")
    /\ users' = Append(users, GoogleUser(Len(users) + 1, procs[p].email))
    /\ tokens' = tokens \cup {procs[p].email}
    /\ Finish(p, 200, "token")
    /\ UNCHANGED <<catrest, client, phase, now, started>>

\* google_login for an existing user: update_one by _id, the read by _id
\* and the token
GoogleLoginUpdate(p) ==
    /\ At(p, "google_login", "update")
    /\ users' = SetGoogle(users, procs[p].user.id, procs[p].email, procs[p].update_data)
    /\ tokens' = tokens \cup {users[procs[p].user.id].email}
    /\ Finish(p, 200, "token")
    /\ UNCHANGED <<catrest, client, phase, now, started>>

InitAuth ==
    /\ domain = "retail"
    /\ raw = Null
    /\ product = NoProduct
    /\ coll = <<>>
    /\ details = <<>>
    /\ faultAt = 0
    /\ req = Null
    /\ page = Null
    /\ exit = "none"
    /\ calls = 0
    /\ resp = Null
    /\ client = Unassigned
    /\ phase = "boot"
    /\ users = <<>>
    /\ procs = [p \in Procs |-> Idle]
    /\ now = 0
    /\ tokens = {}
    /\ started = 0

NextAuth ==
    \/ Startup
    \/ Shutdown
    \/ Tick
    \/ \E p \in Procs :
           \/ SignupFind(p)
           \/ SignupInsert(p)
           \/ Signin(p)
           \/ VerifyEmailFind(p)
           \/ VerifyEmailUpdate(p)
           \/ ForgotPasswordFind(p)
           \/ ForgotPasswordUpdate(p)
           \/ ResetPasswordFind(p)
           \/ ResetPasswordUpdate(p)
           \/ GetCurrentUser(p)
           \/ UpdateProfileFind(p)
           \/ UpdateProfileUpdate(p)
           \/ GoogleLoginFind(p)
           \/ GoogleLoginInsert(p)
           \/ GoogleLoginUpdate(p)

SpecAuth == InitAuth /\ [][NextAuth]_vars

(***************************************************************************)
(* Properties of the normalizer (SpecNorm).                                *)
(***************************************************************************)
Normalized == product.status = "ok"

\* position of a shopPrices entry's shop in the domain's fixed shop order
OrderIndex(dom, display) ==
    CHOOSE n \in 1..Len(ShopOrder(dom)) : DisplayName(ShopOrder(dom)[n]) = display

\* C1: the shopPrices of every normalized product are sorted non-decreasing
\* by price, and entries of equal price keep the fixed shop order.
C1_SortedStable ==
    Normalized =>
        \A i, j \in 1..Len(product.shopPrices) :
            i < j =>
                /\ NumLe(product.shopPrices[i].price, product.shopPrices[j].price)
                /\ product.shopPrices[i].price = product.shopPrices[j].price
                       => OrderIndex(domain, product.shopPrices[i].shop)
                              < OrderIndex(domain, product.shopPrices[j].shop)

\* three entries: a tie kept in shop order, and the first shop moved last
C1_Witness ==
    /\ Normalized
    /\ Len(product.shopPrices) = 3
    /\ product.shopPrices[1].price = product.shopPrices[2].price
    /\ NumLt(product.shopPrices[2].price, product.shopPrices[3].price)
    /\ OrderIndex(domain, product.shopPrices[3].shop) = 1

\* C2: bestPrice is the price of shopPrices[0], the minimum over the
\* entries, when shopPrices is non-empty, and 0.0 when it is empty.
C2_BestPrice ==
    Normalized =>
        IF product.shopPrices # <<>>
        THEN /\ product.bestPrice = product.shopPrices[1].price
             /\ \A i \in 1..Len(product.shopPrices) :
                    NumLe(product.bestPrice, product.shopPrices[i].price)
        ELSE product.bestPrice = Zero

\* a parapharmacy product whose entries differ in price after rounding
C2_Witness ==
    /\ Normalized
    /\ domain = "para"
    /\ Len(product.shopPrices) >= 2
    /\ \E s \in DOMAIN raw.shops : raw.shops[s].price = PriceOfLevel(2)
    /\ NumLt(product.bestPrice,
             product.shopPrices[Len(product.shopPrices)].price)

\* the record of the scenario: shop A 100 available, shop B 80 unavailable
C3_Scenario ==
    /\ domain = "retail"
    /\ DOMAIN raw.shops = {"mytek", "spacenet"}
    /\ raw.shops["mytek"].price = Num(100, 0)
    /\ raw.shops["mytek"].available
    /\ raw.shops["spacenet"].price = Num(80, 0)
    /\ ~raw.shops["spacenet"].available
    /\ raw.shops["mytek"].old_price.k # "text"
    /\ raw.shops["spacenet"].old_price.k # "text"

\* C3: inStock is true iff some shopPrices entry is available; on the
\* scenario record shopPrices is [B, A], bestPrice 80 and inStock true.
C3_InStockIffEntryAvailable ==
    /\ Normalized =>
           (product.inStock <=>
                \E i \in 1..Len(product.shopPrices) :
                    product.shopPrices[i].available)
    /\ (C3_Scenario /\ product # NoProduct) =>
           /\ Normalized
           /\ Len(product.shopPrices) = 2
           /\ product.shopPrices[1].shop = "Spacenet"
           /\ product.shopPrices[2].shop = "Mytek"
           /\ product.bestPrice = Num(80, 0)
           /\ product.inStock

C3_Witness == C3_Scenario /\ Normalized /\ product.inStock

\* C4: inStock is true iff some shop offer of the record's shop mapping is
\* available, whether or not that offer carries a price.
C4_InStockIffOfferAvailable ==
    Normalized =>
        (product.inStock <=>
             \E s \in DOMAIN raw.shops : raw.shops[s].available)

\* an offer whose price or old price is absent or not a number
Unusable(shop) ==
    \/ shop.price.k # "num"
    \/ shop.old_price.k = "text"

\* C10: a missing or malformed price or old price never makes normalization
\* fail, and a record with no valid offer yields bestPrice 0.0, inStock
\* false and shopPrices [].
C10_MalformedNotFatal ==
    product # NoProduct =>
        /\ Normalized
        /\ (\A s \in DOMAIN raw.shops : Unusable(raw.shops[s])) =>
               /\ product.bestPrice = Zero
               /\ ~product.inStock
               /\ product.shopPrices = <<>>

(***************************************************************************)
(* Properties of the listing accessor (SpecList).                          *)
(***************************************************************************)
Answered == exit # "none"

\* the least n with n * limit >= total
Ceil(total, limit) ==
    CHOOSE n \in 0..total : n * limit >= total /\ \A m \in 0..(n - 1) : m * limit < total

\* C5: every ListingPage returned has totalPages = ceil(total / limit) when
\* total > 0 and totalPages = 1 when total = 0.
C5_TotalPagesEveryPage ==
    Answered =>
        /\ page.total > 0 => page.totalPages = Ceil(page.total, page.limit)
        /\ page.total = 0 => page.totalPages = 1

\* C5, amended: totalPages = ceil(total / limit) when total > 0; when
\* total = 0 it is 1 on a page built from a query result and 0 on the empty
\* page of the except branch.
C5_TotalPages ==
    Answered =>
        /\ page.total > 0 => page.totalPages = Ceil(page.total, page.limit)
        /\ page.total = 0 => page.totalPages = (IF exit = "return" THEN 1 ELSE 0)

\* a total that the limit does not divide
C5_Witness ==
    /\ exit = "return"
    /\ page.limit = 2
    /\ page.total = 3
    /\ page.totalPages = 2

\* the _id values of a sequence of documents or products
Ids(docs) == [i \in 1..Len(docs) |-> docs[i].id]

\* C6: when the query succeeds, total is the number of records passing the
\* filters and the products are the records at positions
\* (page-1)*limit+1 .. min(page*limit, total) of that sequence.
C6_CountAndSlice ==
    (Answered /\ faultAt = 0) =>
        LET docs == Filtered(domain, req, coll)
            first == (req.page - 1) * req.limit + 1
            last == IF req.page * req.limit < Len(docs)
                    THEN req.page * req.limit ELSE Len(docs)
        IN  /\ page.total = Len(docs)
            /\ Ids(page.products) = Ids(SubSeq(docs, first, last))

\* a record none of whose shop offers has a numeric price
AllUnpriced(doc) == \A s \in DOMAIN doc.shops : doc.shops[s].price.k # "num"

\* C7: with max_price set below the sentinel, a record whose shop offers
\* all have a missing or non-numeric price is neither in the returned page
\* nor counted in total.
C7_UnpricedExcluded ==
    (Answered /\ req.max_price # Null /\ NumLt(req.max_price, Num(SENTINEL, 0))) =>
        /\ \A i \in 1..Len(coll) :
               AllUnpriced(coll[i]) =>
                   \A j \in 1..Len(page.products) :
                       page.products[j].id # coll[i].id
        /\ page.total <=
               Len(SelectSeq(coll, LAMBDA doc :
                       BaseMatch(domain, req, doc) /\ ~AllUnpriced(doc)))

\* a candidate with offers but no price at all, left out of a non-empty page
C7_Witness ==
    /\ exit = "return"
    /\ req.max_price # Null
    /\ page.total > 0
    /\ \E i \in 1..Len(coll) :
           /\ AllUnpriced(coll[i])
           /\ DOMAIN coll[i].shops # {}
           /\ BaseMatch(domain, req, coll[i])

\* C8: when the aggregation query fails the accessor returns the page
\* products = [], total = 0, totalPages = 0 with the request's page and
\* limit.
C8_FailureGivesEmptyPage ==
    (Answered /\ faultAt = 1) =>
        /\ exit = "except"
        /\ page.products = <<>>
        /\ page.total = 0
        /\ page.totalPages = 0
        /\ page.page = req.page
        /\ page.limit = req.limit

\* the store failed on a request that had matching records
C8_Witness ==
    /\ exit = "except"
    /\ faultAt = 1
    /\ req.page = 2
    /\ Len(Filtered(domain, req, coll)) > 0

(***************************************************************************)
(* Properties of the category, lookup and search accessors (SpecAcc).      *)
(***************************************************************************)
\* the request reached the store call that fails
StoreFailed == Answered /\ faultAt \in 1..calls

\* C9: when the document store fails during a lookup, a distinct-category
\* listing or an autocomplete search, the accessor propagates the failure,
\* which surfaces as an error response.
C9_FailurePropagatesAll ==
    StoreFailed => (exit = "raise" /\ resp.status = 500)

\* C9, amended: a store failure during a lookup or an autocomplete search is
\* propagated and surfaces as an error response; during a distinct-category
\* listing it is caught and the accessor returns a normal empty list.
C9_FailurePropagates ==
    StoreFailed =>
        IF req.op = "categories"
        THEN exit = "except" /\ resp = [status |-> 200, body |-> <<>>]
        ELSE exit = "raise" /\ resp.status = 500

\* a lookup by SKU that misses the merged collection and the first shop and
\* fails on the second shop's collection
C9_Witness ==
    /\ StoreFailed
    /\ req.op = "by_sku"
    /\ faultAt = 3
    /\ calls = 3
    /\ resp.status = 500

(***************************************************************************)
(* Properties of autocomplete search (SpecAcc).                            *)
(***************************************************************************)
SearchAnswered == Answered /\ req.op = "search"

\* the documents of source n: 1 is merged_products, then the shops in order
SourceDocs(n) ==
    {SourceColl(n, coll, details)[i] :
         i \in 1..Len(SourceColl(n, coll, details))}

\* the source and the document a result was built from
SourceOf(id) == CHOOSE n \in 1..SourceCount(domain) :
                    \E d \in SourceDocs(n) : d.id = id

DocOf(id) == CHOOSE d \in SourceDocs(SourceOf(id)) : d.id = id

\* the request's query matches the title or the SKU of d
QueryMatches(d) == RegexMatch(req.q, d.title) \/ RegexMatch(req.q, d.sku)

ResultIds == {resp.body[i].id : i \in 1..Len(resp.body)}

\* C11: a search request whose query has fewer than 2 characters is
\* answered with an empty list and makes no store call.
C11_ShortQueryNoQuery ==
    (SearchAnswered /\ Len(req.q) < 2) =>
        /\ resp = [status |-> 200, body |-> <<>>]
        /\ exit = "return"
        /\ calls = 0

\* a one-character query that matches a merged document, on a store whose
\* first call would fail
C11_Witness ==
    /\ SearchAnswered
    /\ Len(req.q) = 1
    /\ faultAt = 1
    /\ \E d \in SourceDocs(1) : QueryMatches(d)
    /\ resp.body = <<>>

\* C12: the list returned by autocomplete search never holds two results
\* built from documents with the same SKU, whichever collections they come
\* from.
C12_NoDuplicateSku ==
    (SearchAnswered /\ resp.status = 200) =>
        \A i, j \in 1..Len(resp.body) :
            i # j => DocOf(resp.body[i].id).sku # DocOf(resp.body[j].id).sku

\* a merged result and a later fallback result, with a matching document of
\* a shop collection in between left out for carrying the merged result's SKU
C12_Witness ==
    /\ SearchAnswered
    /\ resp.status = 200
    /\ Len(resp.body) = 2
    /\ SourceOf(resp.body[1].id) = 1
    /\ SourceOf(resp.body[2].id) = 3
    /\ \E d \in SourceDocs(2) :
           /\ QueryMatches(d)
           /\ d.id \notin ResultIds
           /\ d.sku = DocOf(resp.body[1].id).sku

\* C13: a matching document that has no SKU is not deduplicated: short of
\* the limit, it is included in the results of autocomplete search.
C13_SkuLessIncluded ==
    (SearchAnswered /\ resp.status = 200 /\ Len(req.q) >= 2
         /\ Len(resp.body) < req.limit) =>
        \A n \in 1..SourceCount(domain) :
            \A d \in SourceDocs(n) :
                (QueryMatches(d) /\ ~Truthy(d.sku)) => d.id \in ResultIds

\* the results built from documents of the sources before source n
ResultsBefore(n) ==
    Cardinality({i \in 1..Len(resp.body) : SourceOf(resp.body[i].id) < n})

\* C14: a search with limit >= 1 returns at most `limit` results, merged
\* results before fallback results; the shop collections are queried only
\* when the merged collection gave fewer than `limit` results, in the fixed
\* shop order, and none is queried once `limit` results are collected.
C14_LimitAndOrder ==
    (SearchAnswered /\ resp.status = 200 /\ Len(req.q) >= 2) =>
        /\ Len(resp.body) <= req.limit
        /\ \A i, j \in 1..Len(resp.body) :
               i < j => SourceOf(resp.body[i].id) <= SourceOf(resp.body[j].id)
        /\ calls \in 1..SourceCount(domain)
        /\ \A i \in 1..Len(resp.body) : SourceOf(resp.body[i].id) <= calls
        /\ \A n \in 2..calls : ResultsBefore(n) < req.limit

\* the limit is reached on the second shop collection: a merged result, then
\* one of the second shop, and the third shop's matching document not fetched
C14_Witness ==
    /\ SearchAnswered
    /\ resp.status = 200
    /\ req.limit = 2
    /\ Len(resp.body) = 2
    /\ SourceOf(resp.body[1].id) = 1
    /\ SourceOf(resp.body[2].id) = 3
    /\ calls = 3
    /\ \E d \in SourceDocs(4) : QueryMatches(d)

(***************************************************************************)
(* Properties of the lookups by id and by SKU (SpecAcc).                   *)
(***************************************************************************)
LookupAnswered == Answered /\ req.op \in {"by_sku", "by_id"}

\* d is a document the lookup's key selects
KeySelects(d) ==
    IF req.op = "by_sku" THEN d.sku = Text(req.sku)
    ELSE req.product_id.valid /\ d.id = req.product_id.oid

\* the sources that hold a document the key selects
HitSources ==
    {n \in 1..SourceCount(domain) : \E d \in SourceDocs(n) : KeySelects(d)}

FirstHit == CHOOSE n \in HitSources : \A m \in HitSources : n <= m

\* C15: a lookup queries the merged collection first and the shop
\* collections one at a time in the fixed order, stops at the first source
\* that has a match and builds its result from that source.
C15_FirstSourceWins ==
    (LookupAnswered /\ HitSources # {}) =>
        /\ calls \in 1..FirstHit
        /\ calls < FirstHit => (exit = "raise" /\ faultAt = calls)
        /\ resp.status = 200 =>
               /\ calls = FirstHit
               /\ SourceOf(resp.body.id) = FirstHit
               /\ KeySelects(DocOf(resp.body.id))

\* a SKU held by the second shop's collection alone: two sources are tried
\* before it and the third shop's collection, not empty, is left alone
C15_Witness ==
    /\ LookupAnswered
    /\ req.op = "by_sku"
    /\ HitSources = {3}
    /\ calls = 3
    /\ resp.status = 200
    /\ SourceOf(resp.body.id) = 3
    /\ SourceDocs(1) # {}
    /\ SourceDocs(2) # {}
    /\ SourceDocs(4) # {}

\* the id of a lookup by id is well formed (a lookup by SKU has none)
WellFormedKey == req.op = "by_id" => req.product_id.valid

\* C16: a lookup that finds no match in any source is answered 404 from a
\* normal return of the service, not with an error; a lookup by a malformed
\* id is answered the same way without any store call.
C16_NotFoundIsEmpty ==
    LookupAnswered =>
        /\ ~WellFormedKey =>
               /\ exit = "return"
               /\ resp = [status |-> 404, body |-> Null]
               /\ calls = 0
        /\ (WellFormedKey /\ HitSources = {} /\ faultAt = 0) =>
               /\ exit = "return"
               /\ resp = [status |-> 404, body |-> Null]
               /\ calls = SourceCount(domain)

\* a well-formed id that no source holds, every source holding documents
C16_Witness ==
    /\ LookupAnswered
    /\ req.op = "by_id"
    /\ WellFormedKey
    /\ HitSources = {}
    /\ \A n \in 1..SourceCount(domain) : SourceDocs(n) # {}
    /\ calls = SourceCount(domain)
    /\ resp.status = 404

\* the specification keys of the shops of a merged document
ShopSpecKeys(d) ==
    UNION {DOMAIN d.shops[s].specifications.m :
               s \in {t \in DOMAIN d.shops : d.shops[t].specifications.k = "map"}}

\* C17: every product a successful lookup returns carries its
\* specifications: merged from the shops when it was found in the merged
\* collection, the source record's mapping verbatim when it was found in a
\* shop collection (nothing when the record has none), in both domains.
C17_SpecsCarried ==
    (LookupAnswered /\ resp.status = 200) =>
        IF SourceOf(resp.body.id) = 1
        THEN /\ resp.body.specifications.k = "map"
             /\ DOMAIN resp.body.specifications.m
                    = ShopSpecKeys(DocOf(resp.body.id))
        ELSE IF DocOf(resp.body.id).specifications.k = "map"
        THEN resp.body.specifications = DocOf(resp.body.id).specifications
        ELSE ~Truthy(resp.body.specifications)

\* the shop name shown for the n-th shop collection of a domain
ShopLabel(dom, n) ==
    IF dom = "retail" THEN <<"Mytek", "Spacenet", "Tunisianet">>[n]
    ELSE <<"Parashop", "Pharma Shop", "Parafendri">>[n]

\* C18: a product found only in a shop collection is returned with exactly
\* one shopPrices entry: its shop is the collection's shop, its price is the
\* product's bestPrice and its availability is the product's inStock.
C18_SingleEntry ==
    (LookupAnswered /\ resp.status = 200 /\ 1 \notin HitSources) =>
        /\ Len(resp.body.shopPrices) = 1
        /\ resp.body.shopPrices[1].shop
               = ShopLabel(domain, SourceOf(resp.body.id) - 1)
        /\ resp.body.shopPrices[1].price = resp.body.bestPrice
        /\ resp.body.shopPrices[1].available = resp.body.inStock

\* a parapharmacy record of the second shop whose price has a fourth decimal,
\* returned with the rounded price in both places
C18_Witness ==
    /\ LookupAnswered
    /\ resp.status = 200
    /\ domain = "para"
    /\ 1 \notin HitSources
    /\ SourceOf(resp.body.id) = 3
    /\ DocOf(resp.body.id).price = Num(80, 4)
    /\ resp.body.bestPrice = Num(80, 0)
    /\ resp.body.shopPrices[1].shop = "Pharma Shop"
    /\ ~resp.body.inStock

(***************************************************************************)
(* Properties of the canonical brand and image (SpecAttr).                 *)
(***************************************************************************)
\* shop s of the raw record has a non-empty brand
HasBrand(s) ==
    /\ s \in DOMAIN raw.shops
    /\ raw.shops[s].brand.k = "text"
    /\ raw.shops[s].brand.s # <<>>

\* C19: the brand is the uppercased brand of the first shop, in the fixed
\* shop order, that has a non-empty brand, priced or not; it is exactly
\* "Generic" when no shop has a brand.
C19_Brand ==
    Normalized =>
        /\ \A n \in 1..Len(ShopOrder(domain)) :
               (/\ HasBrand(ShopOrder(domain)[n])
                /\ \A m \in 1..(n - 1) : ~HasBrand(ShopOrder(domain)[m]))
                   => product.brand
                          = Upper(raw.shops[ShopOrder(domain)[n]].brand.s)
        /\ (\A n \in 1..Len(ShopOrder(domain)) : ~HasBrand(ShopOrder(domain)[n]))
               => product.brand = <<"G", "e", "n", "e", "r", "i", "c">>

\* the first shop has a price and an empty brand, the second a brand and no
\* price, the third a price and another brand: the second shop's brand wins
C19_Witness ==
    /\ Normalized
    /\ DOMAIN raw.shops = ShopNames(domain)
    /\ raw.shops[ShopOrder(domain)[1]].price = Num(100, 0)
    /\ raw.shops[ShopOrder(domain)[1]].brand = Text(<<>>)
    /\ raw.shops[ShopOrder(domain)[2]].price = Null
    /\ raw.shops[ShopOrder(domain)[2]].brand = Text(<<"A", "b">>)
    /\ raw.shops[ShopOrder(domain)[3]].brand = Text(<<"h", "p">>)
    /\ product.brand = <<"A", "B">>

\* the images of shop s that do not match the banner pattern, by position
Shown(s) ==
    {i \in 1..Len(raw.shops[s].images) : ~IsBanner(raw.shops[s].images[i])}

FirstShown(s) ==
    raw.shops[s].images[CHOOSE i \in Shown(s) : \A j \in Shown(s) : i <= j]

\* shop s has a non-empty image list
HasImages(s) == s \in DOMAIN raw.shops /\ raw.shops[s].images # <<>>

\* shop s has an image to show: its first image that is not a banner exists
\* and is not the placeholder value itself
HasShown(s) ==
    /\ s \in DOMAIN raw.shops
    /\ Shown(s) # {}
    /\ FirstShown(s) # PLACEHOLDER

ImageOrder == <<"mytek", "tunisianet", "spacenet">>

\* C20: in general retail the image comes from the first shop, in image
\* order, that has a non-empty image list: its first image that is not a
\* banner, or the placeholder when it has none; later shops are not
\* consulted.
C20_FirstShopWithImages ==
    (Normalized /\ domain = "retail") =>
        /\ \A n \in 1..3 :
               (/\ HasImages(ImageOrder[n])
                /\ \A m \in 1..(n - 1) : ~HasImages(ImageOrder[m]))
                   => product.image
                          = IF Shown(ImageOrder[n]) # {}
                            THEN FirstShown(ImageOrder[n])
                            ELSE PLACEHOLDER
        /\ (\A n \in 1..3 : ~HasImages(ImageOrder[n]))
               => product.image = PLACEHOLDER

\* C20, amended: in general retail the image is the first image that is not
\* a banner of the first shop, in image order, that has such an image other
\* than the placeholder value; a shop whose images are all banners is passed
\* over for the next shop, and the image is the placeholder when no shop
\* has an image to show.
C20_FirstShownImage ==
    (Normalized /\ domain = "retail") =>
        /\ \A n \in 1..3 :
               (/\ HasShown(ImageOrder[n])
                /\ \A m \in 1..(n - 1) : ~HasShown(ImageOrder[m]))
                   => product.image = FirstShown(ImageOrder[n])
        /\ (\A n \in 1..3 : ~HasShown(ImageOrder[n]))
               => product.image = PLACEHOLDER

\* mytek has banners only, tunisianet a banner and then an image, spacenet
\* another image: tunisianet's image is taken
C20_Witness ==
    /\ Normalized
    /\ domain = "retail"
    /\ DOMAIN raw.shops = ShopNames("retail")
    /\ raw.shops["mytek"].images = <<BANNER_IMG>>
    /\ raw.shops["tunisianet"].images = <<BANNER_IMG, IMG>>
    /\ raw.shops["spacenet"].images = <<IMG2>>
    /\ product.image = IMG

(***************************************************************************)
(* Properties of the merged specifications (SpecSpecs).                    *)
(***************************************************************************)
\* shop s of the raw record has a specification mapping with this key
HasSpecKey(s, key) ==
    /\ s \in DOMAIN raw.shops
    /\ raw.shops[s].specifications.k = "map"
    /\ key \in DOMAIN raw.shops[s].specifications.m

SpecKeys == {"cpu", "ram"}

\* C21: with include_specs the specifications are the union of the shops'
\* keys, each with the value of the earliest shop in the fixed order that
\* has the key; without include_specs no specifications are given.
C21_MergedSpecs ==
    Normalized =>
        IF req.include_specs
        THEN /\ product.specifications.k = "map"
             /\ DOMAIN product.specifications.m
                    = {key \in SpecKeys :
                           \E s \in ShopNames(domain) : HasSpecKey(s, key)}
             /\ \A key \in DOMAIN product.specifications.m :
                    \A n \in 1..Len(ShopOrder(domain)) :
                        (/\ HasSpecKey(ShopOrder(domain)[n], key)
                         /\ \A m \in 1..(n - 1) :
                                ~HasSpecKey(ShopOrder(domain)[m], key))
                            => product.specifications.m[key]
                                   = raw.shops[ShopOrder(domain)[n]]
                                         .specifications.m[key]
        ELSE product.specifications = Null

\* the second shop has cpu and ram, the third another cpu and the first no
\* specifications: the second shop's values are kept
C21_Witness ==
    /\ Normalized
    /\ req.include_specs
    /\ DOMAIN raw.shops = ShopNames(domain)
    /\ raw.shops[ShopOrder(domain)[1]].specifications = Null
    /\ raw.shops[ShopOrder(domain)[2]].specifications
           = [k |-> "map", m |-> ("cpu" :> "i7") @@ ("ram" :> "8")]
    /\ raw.shops[ShopOrder(domain)[3]].specifications
           = [k |-> "map", m |-> ("cpu" :> "i5")]
    /\ product.specifications.m = ("cpu" :> "i7") @@ ("ram" :> "8")

(***************************************************************************)
(* Properties of the old prices and of the rounding (SpecFine).            *)
(***************************************************************************)
\* the old prices of the shopPrices entries that have one
EntryOldPrices ==
    {product.shopPrices[i].oldPrice :
         i \in {j \in 1..Len(product.shopPrices) :
                    product.shopPrices[j].oldPrice # Null}}

\* C22: originalPrice is the minimum old price over the shopPrices entries
\* that have one and is absent when no entry has an old price; it is never
\* derived from bestPrice.
C22_OriginalPrice ==
    Normalized =>
        IF EntryOldPrices = {} THEN product.originalPrice = Null
        ELSE /\ product.originalPrice \in EntryOldPrices
             /\ \A o \in EntryOldPrices : NumLe(product.originalPrice, o)

\* x has no digit beyond dp decimal places
IsRounded(x, dp) == x.f % (10 ^ (PARA_DP + 1 - dp)) = 0

\* C23: every price and every old price in shopPrices is rounded to the
\* domain's precision: 2 decimal places in general retail, 3 decimal places
\* in parapharmacy.
C23_Rounded ==
    Normalized =>
        \A i \in 1..Len(product.shopPrices) :
            /\ IsRounded(product.shopPrices[i].price,
                         IF domain = "retail" THEN 2 ELSE PARA_DP)
            /\ product.shopPrices[i].oldPrice # Null
                   => IsRounded(product.shopPrices[i].oldPrice,
                                IF domain = "retail" THEN 2 ELSE PARA_DP)

(***************************************************************************)
(* Agreement of the listing filters with the normalizer (SpecList).        *)
(***************************************************************************)
\* C25: with min_price and/or max_price set, every product of the returned
\* page has a bestPrice within the requested bounds.
C25_PriceWithinBounds ==
    (Answered /\ exit = "return") =>
        \A i \in 1..Len(page.products) :
            /\ req.min_price # Null
                   => NumLe(req.min_price, page.products[i].bestPrice)
            /\ req.max_price # Null
                   => NumLe(page.products[i].bestPrice, req.max_price)

\* C26: with in_stock_only set, every product of the returned page has
\* inStock true.
C26_InStockOnly ==
    (Answered /\ exit = "return" /\ req.in_stock_only) =>
        \A i \in 1..Len(page.products) : page.products[i].inStock

(***************************************************************************)
(* Completeness of autocomplete search (SpecCap).                          *)
(***************************************************************************)
\* the distinct non-empty SKUs of the documents the query matches
MatchingSkus ==
    {d.sku : d \in {e \in UNION {SourceDocs(n) : n \in 1..SourceCount(domain)} :
                        QueryMatches(e) /\ Truthy(e.sku)}}

\* C27: search returns exactly `limit` results when the collections hold at
\* least `limit` matching documents with distinct non-empty SKUs, and
\* otherwise as many results as there are such SKUs.
C27_ExactlyLimit ==
    (SearchAnswered /\ resp.status = 200 /\ Len(req.q) >= 2) =>
        Len(resp.body) = IF Cardinality(MatchingSkus) >= req.limit
                         THEN req.limit
                         ELSE Cardinality(MatchingSkus)

(***************************************************************************)
(* Properties of the lifespan and the auth endpoints (SpecAuth).           *)
(***************************************************************************)
\* a step of a request handler: a request starts, or a handler in flight
\* passes a store call
HandlerStep == procs' # procs \/ started' # started

CreatedBySignup(u) == u.verification_code # Null

\* task p completes a verify_email request whose code is the one stored for u
VerifiesWithCodeOf(p, u) ==
    /\ procs[p].op = "verify_email"
    /\ procs'[p] = Idle
    /\ procs[p].email = u.email
    /\ procs[p].code = u.verification_code

\* C28: an account created by signup becomes verified only by a verify-email
\* request with the code issued for it, and no operation raises its role to
\* admin.
C28_OnlyVerifyEmail ==
    [][\A i \in 1..Len(users) :
           CreatedBySignup(users[i]) =>
               /\ (~users[i].is_verified /\ users'[i].is_verified) =>
                      \E p \in Procs : VerifiesWithCodeOf(p, users[i])
               /\ users[i].role # "admin" => users'[i].role # "admin"]_vars

\* C29: the users collection never holds two documents with the same email.
C29_UniqueEmail ==
    \A i, j \in 1..Len(users) : i # j => users[i].email # users[j].email

\* task p completes a reset_password request on the document with id i
ResetsPasswordOf(p, i) ==
    /\ procs[p].op = "reset_password"
    /\ procs'[p] = Idle
    /\ procs[p].user.id = i

\* what task p's reset_password request submitted and read lets it through:
\* the stored code is there and equal to the submitted one, and the stored
\* expiry, at most RESET_TTL minutes ahead, had not passed at the check
ResetCodeValid(frame) ==
    /\ frame.user.reset_code # Null
    /\ frame.user.reset_code = frame.code
    /\ frame.user.reset_code_expires # Null
    /\ frame.utcnow <= frame.user.reset_code_expires.t
    /\ frame.user.reset_code_expires.t <= frame.utcnow + RESET_TTL

====
